---------------------------- MODULE Spec2Model ----------------------------
(***************************************************************************)
(* Model of src/lab.py: the Riemann-sum engine (CalculatorUtils) and the   *)
(* interactive harness around it (Drawer).                                 *)
(*                                                                         *)
(* Numbers.  Python computes with IEEE doubles; the model computes with    *)
(* exact rationals [num, den] in lowest terms, i.e. with the real numbers  *)
(* the doubles approximate.  Statements about values are therefore         *)
(* statements of real arithmetic; rounding error of the doubles is outside *)
(* the model.  The float power a ** x is exact at integer x and the chord  *)
(* between the neighbouring integer powers elsewhere (positive, strictly   *)
(* increasing for a > 1), with math.e replaced by its convergent 19/7.     *)
(***************************************************************************)
EXTENDS Integers, Sequences, FiniteSets, TLC

VARIABLES
    settings,   \* Drawer.__settings / the Settings handed to CalculatorUtils
    points,     \* Drawer.__points
    axes,       \* Drawer.__axes: what the last draw() left on the axes
    event,      \* the last text submitted to a TextBox handler
    outcome,    \* how the last handler (or draw) ended
    log,        \* the Drawer methods entered by the last handler, in order
    pc,         \* position of the __main__ script
    console,    \* what __main__ printed
    ret         \* engine specification: the last CalculatorUtils call's result

vars == <<settings, points, axes, event, outcome, log, pc, console, ret>>

---------------------------------------------------------------------------
(* Bounds of the model *)

MaxAccuracy == 3

IntervalBounds == -1 .. 2

Accuracies == -1 .. MaxAccuracy

\* formula ids tried by the engine specification: the table and three others
TaskIds == {2, 10, 22, 26, 31, 0, 3, 999}

---------------------------------------------------------------------------
(* Exact rational arithmetic standing for Python's float arithmetic.  The  *)
(* operations are functions, so that their arguments are evaluated once.   *)

Abs(a) == IF a < 0 THEN -a ELSE a

GCDOf[a \in Nat, b \in Nat] == IF b = 0 THEN a ELSE GCDOf[b, a % b]

Fraction[n \in Int, d \in Int] ==
    LET g == GCDOf[Abs(n), Abs(d)]
        s == IF d < 0 THEN -1 ELSE 1
    IN  [num |-> s * (n \div g), den |-> s * (d \div g)]

\* n / d in lowest terms with a positive denominator; d # 0
Rat(n, d) == Fraction[n, d]

Rationals == [num : Int, den : Nat]

FromInt(i) == [num |-> i, den |-> 1]

RNeg(a) == [num |-> -a.num, den |-> a.den]

Sum[a \in Rationals, b \in Rationals] ==
    LET g == GCDOf[a.den, b.den]
        L == (a.den \div g) * b.den
    IN  Fraction[a.num * (L \div a.den) + b.num * (L \div b.den), L]

RAdd(a, b) == Sum[a, b]

RSub(a, b) == Sum[a, RNeg(b)]

Product[a \in Rationals, b \in Rationals] ==
    LET g1 == GCDOf[Abs(a.num), b.den]
        g2 == GCDOf[Abs(b.num), a.den]
    IN  Fraction[(a.num \div g1) * (b.num \div g2), (a.den \div g2) * (b.den \div g1)]

RMul(a, b) == Product[a, b]

\* b # 0
RDiv(a, b) == Product[a, Fraction[b.den, b.num]]

RLe(a, b) == Sum[a, RNeg(b)].num <= 0

RLt(a, b) == Sum[a, RNeg(b)].num < 0

Floor[a \in Rationals] == a.num \div a.den

RMin(a, b) == IF RLe(a, b) THEN a ELSE b

RMax(a, b) == IF RLe(a, b) THEN b ELSE a

\* math.e
E == Rat(19, 7)

IntPower[b \in Rationals, m \in Int] ==
    IF m = 0 THEN FromInt(1)
    ELSE IF m > 0 THEN Product[b, IntPower[b, m - 1]]
    ELSE RDiv(IntPower[b, m + 1], b)

\* b ** m for an integer m
IPow(b, m) == IntPower[b, m]

Power[b \in Rationals, x \in Rationals] ==
    LET m == Floor[x]
        t == RSub(x, FromInt(m))
    IN  RMul(IPow(b, m), RAdd(FromInt(1), RMul(t, RSub(b, FromInt(1)))))

\* b ** x for a float x and b > 0
Pow(b, x) == Power[b, x]

---------------------------------------------------------------------------
(* Results of calls: a value, or the exception that left the call *)

Ok(v) == [err |-> "", val |-> v]

Raise(e) == [err |-> e, val |-> <<>>]

UnsupportedTask == "Exception: Unsupported task"

ZeroDivisionError == "ZeroDivisionError"

ValueError == "ValueError"

---------------------------------------------------------------------------
(* Equipment, Point, Settings *)

LEFT == "LEFT"
RIGHT == "RIGHT"
MIDDLE == "MIDDLE"
RANDOM == "RANDOM"

Equipment == {LEFT, RIGHT, MIDDLE, RANDOM}

Point(x, y) == [x |-> x, y |-> y]

Settings(task, start, end, accuracy, equipment) ==
    [task |-> task, start |-> start, end |-> end,
     accuracy |-> accuracy, equipment |-> equipment]

\* nothing submitted yet, nothing called yet, axes after clear()
NoEvent == [handler |-> "none", text |-> <<>>]

NoCall == [fn |-> "none", arg |-> <<>>, res |-> Ok(<<>>)]

NoAxes == [curve |-> <<>>, patches |-> <<>>, title |-> "", xlim |-> <<>>, ylim |-> <<>>]

---------------------------------------------------------------------------
(* CalculatorUtils.  A local of the Python code that is read more than once *)
(* is the parameter of a helper operator, so that it is computed once.      *)

SupportedTasks == {2, 10, 22, 26, 31}

\* a table that is not closed: a default value for the ids outside it
get_formula_value_at_default(x, s) ==
    CASE s.task = 2  -> Ok(Pow(E, x))
      [] s.task = 10 -> Ok(Pow(E, RMul(FromInt(2), x)))
      [] s.task = 22 -> Ok(RMul(x, RMul(x, x)))
      [] s.task = 26 -> Ok(Pow(E, RMul(FromInt(2), x)))
      [] s.task = 31 -> Ok(Pow(FromInt(3), x))
      [] OTHER       -> Ok(FromInt(0))

get_formula_value_at(x, s) ==
    CASE s.task = 2  -> Ok(Pow(E, x))
      [] s.task = 10 -> Ok(Pow(E, RMul(FromInt(2), x)))
      [] s.task = 22 -> Ok(RMul(x, RMul(x, x)))
      [] s.task = 26 -> Ok(Pow(E, RMul(FromInt(2), x)))
      [] s.task = 31 -> Ok(Pow(FromInt(3), x))
      [] OTHER       -> Raise(UnsupportedTask)

calculate_delta_x(s) ==
    IF s.accuracy = 0 THEN Raise(ZeroDivisionError)
    ELSE Ok(Rat(s.end - s.start, s.accuracy))

\* x = settings.start + i * delta_x
abscissa(s, delta_x, i) == RAdd(FromInt(s.start), RMul(FromInt(i), delta_x))

\* range(count) as the indices 1 .. count of a sequence (none when count <= 0)
Range(count) == 1 .. count

\* get_formula_value_at(x, settings) at the points i = 0 .. count - 1 of a loop
formula_values(s, delta_x, count) ==
    [k \in Range(count) |-> get_formula_value_at(abscissa(s, delta_x, k - 1), s)]

\* the exception a loop over ys leaves with: that of its first failing iteration
first_error(ys) ==
    IF \E k \in DOMAIN ys : ys[k].err # ""
    THEN ys[CHOOSE k \in DOMAIN ys :
                /\ ys[k].err # ""
                /\ \A j \in DOMAIN ys : ys[j].err # "" => k <= j].err
    ELSE ""

\* points.append(Point(x, y)) for every iteration
graph_points_appended(s, delta_x, ys) ==
    IF DOMAIN ys = {} THEN Ok(<<>>)
    ELSE IF first_error(ys) # "" THEN Raise(first_error(ys))
    ELSE Ok([k \in DOMAIN ys |-> Point(abscissa(s, delta_x, k - 1), ys[k].val)])

\* calculate_graph_points after delta_x = d, for i in range(count)
graph_points_loop(s, d, count) ==
    IF d.err # "" THEN Raise(d.err)
    ELSE graph_points_appended(s, d.val, formula_values(s, d.val, count))

\* a loop over range(accuracy): one point per subinterval
calculate_graph_points_short(s) ==
    graph_points_loop(s, calculate_delta_x(s), s.accuracy)

calculate_graph_points(s) ==
    graph_points_loop(s, calculate_delta_x(s), s.accuracy + 1)

\* random.uniform(0, delta_x): the draws the model tries, as fractions of delta_x
RandomDraws == {Rat(0, 1), Rat(1, 3), Rat(1, 2), Rat(1, 1)}

\* the draws random.uniform can make for a configuration (none unless RANDOM)
DrawsFor(s) == IF s.equipment = RANDOM THEN RandomDraws ELSE {Rat(0, 1)}

\* the match of calculate_integral_shape_shift after delta_x = d
shape_shift_match(s, d, r) ==
    IF d.err # "" THEN Raise(d.err)
    ELSE CASE s.equipment = LEFT   -> Ok(FromInt(0))
           [] s.equipment = RIGHT  -> Ok(d.val)
           [] s.equipment = MIDDLE -> Ok(RDiv(d.val, FromInt(2)))
           [] s.equipment = RANDOM -> Ok(RMul(r, d.val))
           [] OTHER -> Raise("Exception: Unsupported equipment")

\* a draw from uniform(delta_x, 2 * delta_x): outside the subinterval
calculate_integral_shape_shift_outside(s, r) ==
    shape_shift_match(s, calculate_delta_x(s), RAdd(r, FromInt(1)))

\* r: the fraction of delta_x that random.uniform draws when it is called
calculate_integral_shape_shift(s, r) ==
    shape_shift_match(s, calculate_delta_x(s), r)

\* integral_sum after the first k iterations of the loop
RECURSIVE integral_sum_after(_, _, _)
integral_sum_after(delta_x, ys, k) ==
    IF k = 0 THEN FromInt(0)
    ELSE RAdd(integral_sum_after(delta_x, ys, k - 1), RMul(delta_x, ys[k].val))

\* the loop of calculate_integral_sum over the formula values ys
integral_sum_loop(delta_x, ys) ==
    IF DOMAIN ys = {} THEN Ok(FromInt(0))
    ELSE IF first_error(ys) # "" THEN Raise(first_error(ys))
    ELSE Ok(integral_sum_after(delta_x, ys, Cardinality(DOMAIN ys)))

\* a match whose MIDDLE case subtracts both end values whole
correction_match_no_half(s, delta_x, delta_x_shift, fs, fe) ==
    IF s.equipment \in {LEFT, MIDDLE, RANDOM} /\ fs.err # "" THEN Raise(fs.err)
    ELSE IF s.equipment \in {RIGHT, MIDDLE, RANDOM} /\ fe.err # "" THEN Raise(fe.err)
    ELSE CASE s.equipment = LEFT   -> Ok(RMul(fs.val, delta_x))
           [] s.equipment = RIGHT  -> Ok(RMul(fe.val, delta_x))
           [] s.equipment = MIDDLE -> Ok(RMul(RAdd(fs.val, fe.val), delta_x))
           [] s.equipment = RANDOM ->
                Ok(RAdd(RMul(fs.val, delta_x_shift),
                        RMul(fe.val, RSub(delta_x, delta_x_shift))))
           [] OTHER -> Ok(FromInt(0))

\* what the match of calculate_integral_sum subtracts, fs and fe being
\* get_formula_value_at(settings.start) and get_formula_value_at(settings.end)
correction_match(s, delta_x, delta_x_shift, fs, fe) ==
    IF s.equipment \in {LEFT, MIDDLE, RANDOM} /\ fs.err # "" THEN Raise(fs.err)
    ELSE IF s.equipment \in {RIGHT, MIDDLE, RANDOM} /\ fe.err # "" THEN Raise(fe.err)
    ELSE CASE s.equipment = LEFT   -> Ok(RMul(fs.val, delta_x))
           [] s.equipment = RIGHT  -> Ok(RMul(fe.val, delta_x))
           [] s.equipment = MIDDLE ->
                Ok(RMul(RDiv(RAdd(fs.val, fe.val), FromInt(2)), delta_x))
           [] s.equipment = RANDOM ->
                Ok(RAdd(RMul(fs.val, delta_x_shift),
                        RMul(fe.val, RSub(delta_x, delta_x_shift))))
           [] OTHER -> Ok(FromInt(0))

integral_sum_correction(s, delta_x, delta_x_shift) ==
    correction_match(s, delta_x, delta_x_shift,
                     get_formula_value_at(FromInt(s.start), s),
                     get_formula_value_at(FromInt(s.end), s))

\* integral_sum -= correction, the loop having run first
integral_sum_corrected(sum, c) ==
    IF sum.err # "" THEN Raise(sum.err)
    ELSE IF c.err # "" THEN Raise(c.err)
    ELSE Ok(RSub(sum.val, c.val))

\* calculate_integral_sum after delta_x = d and delta_x_shift = sh
integral_sum_body(s, d, sh, count) ==
    IF d.err # "" THEN Raise(d.err)
    ELSE IF sh.err # "" THEN Raise(sh.err)
    ELSE integral_sum_corrected(
            integral_sum_loop(d.val, formula_values(s, d.val, count)),
            integral_sum_correction(s, d.val, sh.val))

\* a first pass over range(accuracy): a raw sum of accuracy terms
calculate_integral_sum_short(s, r) ==
    integral_sum_body(s, calculate_delta_x(s), calculate_integral_shape_shift(s, r),
                      s.accuracy)

calculate_integral_sum(s, r) ==
    integral_sum_body(s, calculate_delta_x(s), calculate_integral_shape_shift(s, r),
                      s.accuracy + 1)

---------------------------------------------------------------------------
(* Texts of the TextBoxes and Python's int(text).  A text is a sequence of *)
(* one-character strings.                                                   *)

DigitChars == <<"0", "1", "2", "3", "4", "5", "6", "7", "8", "9">>

IsDigit(c) == \E i \in 1..10 : DigitChars[i] = c

DigitValue(c) == (CHOOSE i \in 1..10 : DigitChars[i] = c) - 1

IsSpace(c) == c \in {" ", "\t", "\n"}

RECURSIVE StripLeft(_)
StripLeft(t) ==
    IF t # <<>> /\ IsSpace(Head(t)) THEN StripLeft(Tail(t)) ELSE t

RECURSIVE StripRight(_)
StripRight(t) ==
    IF t # <<>> /\ IsSpace(t[Len(t)]) THEN StripRight(SubSeq(t, 1, Len(t) - 1)) ELSE t

\* digits, single underscores allowed between two digits
RECURSIVE DigitsValue(_, _, _)
DigitsValue(t, i, acc) ==
    IF i > Len(t) THEN Ok(acc)
    ELSE IF IsDigit(t[i]) THEN DigitsValue(t, i + 1, 10 * acc + DigitValue(t[i]))
    ELSE IF /\ t[i] = "_"
            /\ i > 1 /\ IsDigit(t[i - 1])
            /\ i < Len(t) /\ IsDigit(t[i + 1]) THEN DigitsValue(t, i + 1, acc)
    ELSE Raise(ValueError)

\* the digits of a stripped text: after its sign, if it has one
Signed(s) == s # <<>> /\ Head(s) \in {"+", "-"}

Body(s) == IF Signed(s) THEN Tail(s) ELSE s

\* int() of a stripped text s whose digits are worth v
int_signed(s, v) ==
    IF Body(s) = <<>> THEN Raise(ValueError)
    ELSE IF v.err # "" THEN v
    ELSE IF Signed(s) /\ Head(s) = "-" THEN Ok(-v.val)
    ELSE v

int_stripped(s) == int_signed(s, DigitsValue(Body(s), 1, 0))

\* what a handler would store if it took every text for a number
int_or_zero(s, v) ==
    IF Body(s) = <<>> \/ v.err # "" THEN Ok(0)
    ELSE IF Signed(s) /\ Head(s) = "-" THEN Ok(-v.val)
    ELSE v

\* an int() that raises nothing: 0 for the texts it cannot read
int_lenient(text) ==
    int_or_zero(StripRight(StripLeft(text)),
                DigitsValue(Body(StripRight(StripLeft(text))), 1, 0))

\* int(text): the integer, or ValueError
int(text) == int_stripped(StripRight(StripLeft(text)))

\* str(n) of an integer
RECURSIVE NatText(_)
NatText(n) ==
    IF n < 10 THEN <<DigitChars[n + 1]>>
    ELSE Append(NatText(n \div 10), DigitChars[(n % 10) + 1])

IntText(n) == IF n < 0 THEN <<"-">> \o NatText(-n) ELSE NatText(n)

\* texts no int() accepts
NonIntegerTexts ==
    {<<>>, <<"1", ".", "5">>, <<"a">>, <<"-">>, <<"1", "_">>, <<"2", "x">>}

\* texts int() accepts that are not str() of their value
PaddedTexts == {<<" ", "2", " ">>, <<"+", "1">>}

\* the texts submitted to each TextBox
AccuracyTexts == {IntText(n) : n \in Accuracies} \cup PaddedTexts \cup NonIntegerTexts

TaskTexts == {IntText(n) : n \in {2, 22, 7}} \cup {<<"a">>, <<"2", "x">>}

StartTexts == {IntText(n) : n \in {-1, 0}} \cup {<<"1", ".", "5">>}

EndTexts == {IntText(n) : n \in {1, 2}} \cup {<<>>, <<"-">>}

---------------------------------------------------------------------------
(* Drawer *)

\* draw_graph's accuracy
GraphAccuracy == 1000000

\* read_settings(args): the arguments are not read
read_settings ==
    Settings(2, 0, 1, 10, MIDDLE)

Rectangle(x, y, width, height) == [x |-> x, y |-> y, width |-> width, height |-> height]

create_integral_rectangle(point, delta_x, delta_x_shift) ==
    Rectangle(RSub(point.x, delta_x_shift), FromInt(0), delta_x, point.y)

\* the loop of create_integral_shape after delta_x = d and delta_x_shift = sh
integral_shape_loop(pts, d, sh) ==
    IF d.err # "" THEN Raise(d.err)
    ELSE IF sh.err # "" THEN Raise(sh.err)
    ELSE IF pts = <<>> THEN Ok(<<>>)
    ELSE Ok([i \in DOMAIN pts |-> create_integral_rectangle(pts[i], d.val, sh.val)])

\* rectangles that begin at their points: delta_x_shift taken for 0
create_integral_shape_no_shift(s, pts, r) ==
    integral_shape_loop(pts, calculate_delta_x(s), Ok(FromInt(0)))

\* create_integral_shape on the stored points pts with random draw r
create_integral_shape(s, pts, r) ==
    integral_shape_loop(pts, calculate_delta_x(s), calculate_integral_shape_shift(s, r))

get_formula_text(s) ==
    CASE s.task = 2  -> Ok("$y = e^x$")
      [] s.task = 10 -> Ok("$y = e^{2x}$")
      [] s.task = 22 -> Ok("$y = x^3$")
      [] s.task = 26 -> Ok("$y = e^{2x}$")
      [] s.task = 31 -> Ok("$y = 3^x$")
      [] OTHER       -> Raise(UnsupportedTask)

\* min(point.y for point in points), max(...); pts is not empty
MinY(pts) ==
    CHOOSE y \in {pts[i].y : i \in DOMAIN pts} : \A i \in DOMAIN pts : RLe(y, pts[i].y)

MaxY(pts) ==
    CHOOSE y \in {pts[i].y : i \in DOMAIN pts} : \A i \in DOMAIN pts : RLe(pts[i].y, y)

\* draw_graph: the curve's GraphAccuracy + 1 points are not enumerated; the
\* plotted line is recorded by the settings it is computed from.  The loop
\* raises at its first point, or at none.
draw_graph_plot(settings_for_graph, first) ==
    IF first.err # "" THEN Raise(first.err) ELSE Ok(<<settings_for_graph>>)

draw_graph(s) ==
    draw_graph_plot(Settings(s.task, s.start, s.end, GraphAccuracy, RANDOM),
                    get_formula_value_at(FromInt(s.start), s))

\* create_window on axes ax, title being get_formula_text()
create_window_set(s, pts, ax, title) ==
    IF title.err # "" THEN [err |-> title.err, val |-> ax]
    ELSE IF pts = <<>>
         THEN [err |-> ValueError,
               val |-> [ax EXCEPT !.title = title.val, !.xlim = <<s.start, s.end>>]]
    ELSE Ok([ax EXCEPT !.title = title.val,
                       !.xlim = <<s.start, s.end>>,
                       !.ylim = <<RSub(MinY(pts), FromInt(1)),
                                  RAdd(MaxY(pts), FromInt(1))>>])

create_window(s, pts, ax) == create_window_set(s, pts, ax, get_formula_text(s))

\* the end of draw(): create_window has ended as win
draw_end(win) ==
    [err |-> win.err, axes |-> win.val,
     log |-> <<"draw", "draw_graph", "draw_integral_sum", "create_window">>]

\* draw() after clear(), draw_graph ending as graph, create_integral_shape as shape
draw_steps(s, pts, graph, shape) ==
    IF graph.err # ""
      THEN [err |-> graph.err, axes |-> NoAxes, log |-> <<"draw", "draw_graph">>]
    ELSE IF shape.err # ""
      THEN [err |-> shape.err, axes |-> [NoAxes EXCEPT !.curve = graph.val],
            log |-> <<"draw", "draw_graph", "draw_integral_sum">>]
    ELSE draw_end(create_window(s, pts,
                    [NoAxes EXCEPT !.curve = graph.val, !.patches = shape.val]))

\* draw(): [err, axes, log]; an exception leaves the axes as far as they got
draw(s, pts, r) ==
    draw_steps(s, pts, draw_graph(s), create_integral_shape(s, pts, r))

\* update() after self.__points = new_points, draw() ending as d
update_drawn(new_points, d) ==
    [err |-> d.err, points |-> new_points, axes |-> d.axes, log |-> <<"update">> \o d.log]

\* update() with calculate_graph_points ending as new
update_assign(s, pts, ax, r, new) ==
    IF new.err # ""
      THEN [err |-> new.err, points |-> pts, axes |-> ax, log |-> <<"update">>]
    ELSE update_drawn(new.val, draw(s, new.val, r))

\* an update() that redraws without calculate_graph_points
update_keep_points(s, pts, ax, r) ==
    update_drawn(pts, draw(s, pts, r))

\* update(): [err, points, axes, log] from settings s, stored points pts, axes ax
update(s, pts, ax, r) ==
    update_assign(s, pts, ax, r, calculate_graph_points(s))

\* a handler with "except Exception: pass"
HandlerOutcome_catch_all(err) ==
    IF err = "" THEN "returned" ELSE "except ValueError: pass"

\* how a handler ends when its try block ended with err
HandlerOutcome(err) ==
    IF err = "" THEN "returned"
    ELSE IF err = ValueError THEN "except ValueError: pass"
    ELSE err

\* the handler has stored the value (settings s1) and update() ended as u
Updated(s1, u) ==
    /\ settings' = s1
    /\ points' = u.points
    /\ axes' = u.axes
    /\ log' = u.log
    /\ outcome' = HandlerOutcome(u.err)

\* the body shared by the on_*_change handlers: parsed is the value to store
\* (an error when the conversion raised), s1 the settings with it stored
Handle(name, text, parsed, s1) ==
    /\ pc = "show"
    /\ event' = [handler |-> name, text |-> text]
    /\ IF parsed.err # ""
         THEN /\ outcome' = HandlerOutcome(parsed.err)
              /\ log' = <<>>
              /\ UNCHANGED <<settings, points, axes>>
         ELSE \E r \in DrawsFor(s1) : Updated(s1, update(s1, points, axes, r))
    /\ UNCHANGED <<pc, console, ret>>

on_accuracy_change_to(text, new_accuracy) ==
    Handle("on_accuracy_change", text, new_accuracy,
           [settings EXCEPT !.accuracy = new_accuracy.val])

on_accuracy_change == \E text \in AccuracyTexts : on_accuracy_change_to(text, int(text))

on_task_change_to(text, new_task) ==
    Handle("on_task_change", text, new_task, [settings EXCEPT !.task = new_task.val])

on_task_change == \E text \in TaskTexts : on_task_change_to(text, int(text))

on_start_change_to(text, new_start) ==
    Handle("on_start_change", text, new_start, [settings EXCEPT !.start = new_start.val])

on_start_change == \E text \in StartTexts : on_start_change_to(text, int(text))

on_end_change_to(text, new_end) ==
    Handle("on_end_change", text, new_end, [settings EXCEPT !.end = new_end.val])

on_end_change == \E text \in EndTexts : on_end_change_to(text, int(text))

\* Drawer(read_settings(sys.argv)): the state after __init__
Init ==
    /\ settings = read_settings
    /\ points = calculate_graph_points(read_settings).val
    /\ axes = NoAxes
    /\ event = NoEvent
    /\ outcome = "none"
    /\ log = <<>>
    /\ pc = "constructed"
    /\ console = <<>>
    /\ ret = NoCall

\* the script after .draw() ended as d and calculate_integral_sum as printed
MainDone(d, printed) ==
    /\ axes' = d.axes
    /\ log' = d.log
    /\ outcome' = IF d.err # "" THEN d.err
                  ELSE IF printed.err # "" THEN printed.err
                  ELSE "returned"
    /\ console' = IF d.err = "" /\ printed.err = "" THEN <<printed.val>> ELSE <<>>
    /\ pc' = IF d.err = "" /\ printed.err = "" THEN "show" ELSE "exit"

\* __main__: .draw(), print(calculate_integral_sum(read_settings(sys.argv))), plt.show()
Main ==
    /\ pc = "constructed"
    /\ \E r \in DrawsFor(settings) :
          MainDone(draw(settings, points, r), calculate_integral_sum(read_settings, r))
    /\ UNCHANGED <<settings, points, event, ret>>

\* on_equipment_change is registered with no TextBox (lines 89-107): no event
\* reaches it, and settings.equipment stays what read_settings made it
Next ==
    \/ Main
    \/ on_accuracy_change
    \/ on_task_change
    \/ on_start_change
    \/ on_end_change

Spec == Init /\ [][Next]_vars

---------------------------------------------------------------------------
(* The engine specification: each function of CalculatorUtils, and         *)
(* create_integral_shape of a Drawer just constructed, applied to every    *)
(* configuration of the bounds and to the default one.  The interactive    *)
(* harness stays idle.                                                     *)

Configurations ==
    {Settings(t, a, b, n, q) :
        t \in TaskIds, a \in IntervalBounds, b \in IntervalBounds,
        n \in Accuracies, q \in Equipment}
    \cup {read_settings}

\* abscissas at which get_formula_value_at is called on its own
ProbeXs == {Rat(-1, 1), Rat(0, 1), Rat(1, 2), Rat(1, 1), Rat(3, 2)}

EngineInit ==
    /\ settings \in Configurations
    /\ ret = NoCall
    /\ points = <<>>
    /\ axes = NoAxes
    /\ event = NoEvent
    /\ outcome = "none"
    /\ log = <<>>
    /\ pc = "engine"
    /\ console = <<>>

HarnessIdle == UNCHANGED <<settings, points, axes, event, outcome, log, pc, console>>

Call_get_formula_value_at ==
    /\ \E x \in ProbeXs :
          ret' = [fn |-> "get_formula_value_at", arg |-> x,
                  res |-> get_formula_value_at(x, settings)]
    /\ HarnessIdle

Call_calculate_delta_x ==
    /\ ret' = [fn |-> "calculate_delta_x", arg |-> <<>>,
               res |-> calculate_delta_x(settings)]
    /\ HarnessIdle

Call_calculate_graph_points ==
    /\ ret' = [fn |-> "calculate_graph_points", arg |-> <<>>,
               res |-> calculate_graph_points(settings)]
    /\ HarnessIdle

Call_calculate_integral_shape_shift ==
    /\ \E r \in DrawsFor(settings) :
          ret' = [fn |-> "calculate_integral_shape_shift", arg |-> r,
                  res |-> calculate_integral_shape_shift(settings, r)]
    /\ HarnessIdle

Call_calculate_integral_sum ==
    /\ \E r \in DrawsFor(settings) :
          ret' = [fn |-> "calculate_integral_sum", arg |-> r,
                  res |-> calculate_integral_sum(settings, r)]
    /\ HarnessIdle

\* Drawer(settings).create_integral_shape(): __init__ having ended as new
shape_of_new_drawer(s, r, new) ==
    IF new.err # "" THEN Raise(new.err) ELSE create_integral_shape(s, new.val, r)

Call_create_integral_shape ==
    /\ \E r \in DrawsFor(settings) :
          ret' = [fn |-> "create_integral_shape", arg |-> r,
                  res |-> shape_of_new_drawer(settings, r, calculate_graph_points(settings))]
    /\ HarnessIdle

EngineNext ==
    \/ Call_get_formula_value_at
    \/ Call_calculate_delta_x
    \/ Call_calculate_graph_points
    \/ Call_calculate_integral_shape_shift
    \/ Call_calculate_integral_sum
    \/ Call_create_integral_shape

EngineSpec == EngineInit /\ [][EngineNext]_vars

---------------------------------------------------------------------------
(* Vocabulary of the statements below, written from the mathematics they   *)
(* speak of and not from the loops of the code.                            *)

\* a supported formula id and at least one subinterval
Supported(s) == s.task \in SupportedTasks /\ s.accuracy >= 1

\* f(x) of the configuration's formula
F(s, x) == get_formula_value_at(x, s).val

\* w = (end - start) / n
Width(s) == Rat(s.end - s.start, s.accuracy)

\* start + i * w
Node(s, i) == RAdd(FromInt(s.start), RMul(FromInt(i), Width(s)))

\* the sum of f(start + i * w) for i = lo .. hi
RECURSIVE SumOfF(_, _, _)
SumOfF(s, lo, hi) ==
    IF hi < lo THEN FromInt(0)
    ELSE RAdd(SumOfF(s, lo, hi - 1), F(s, Node(s, hi)))

\* the correction of a rule
RuleCorrection(s) ==
    CASE s.equipment = LEFT   -> RMul(F(s, FromInt(s.start)), Width(s))
      [] s.equipment = RIGHT  -> RMul(F(s, FromInt(s.end)), Width(s))
      [] s.equipment = MIDDLE ->
           RMul(RDiv(RAdd(F(s, FromInt(s.start)), F(s, FromInt(s.end))), FromInt(2)),
                Width(s))

\* the estimate of the same configuration under another rule
EstimateOf(s, rule) == calculate_integral_sum([s EXCEPT !.equipment = rule], Rat(0, 1)).val

\* min(a, b) <= x <= max(a, b)
Between(a, x, b) == RLe(RMin(a, b), x) /\ RLe(x, RMax(a, b))

Returned(fn) == ret.fn = fn

---------------------------------------------------------------------------
(* The engine (checked under EngineSpec)                                   *)

\* C1: for a supported formula, n >= 1 and a rule among Left, Right and
\* Midpoint, calculate_integral_sum returns w * (f(start) + ... + f(start + n*w)),
\* n + 1 terms, minus the rule's correction; for x^3 on [0, 1] with n = 2 the
\* Left estimate is 0.5625 = 9/16 and the Right estimate 0.0625 = 1/16.
C1_EstimateIsRawSumMinusCorrection ==
    Returned("calculate_integral_sum") =>
       /\ Supported(settings) /\ settings.equipment \in {LEFT, RIGHT, MIDDLE} =>
             ret.res = Ok(RSub(RMul(Width(settings), SumOfF(settings, 0, settings.accuracy)),
                               RuleCorrection(settings)))
       /\ settings = Settings(22, 0, 1, 2, LEFT) => ret.res = Ok(Rat(9, 16))
       /\ settings = Settings(22, 0, 1, 2, RIGHT) => ret.res = Ok(Rat(1, 16))

C1_Witness ==
    /\ Returned("calculate_integral_sum")
    /\ settings = Settings(22, 0, 1, 2, LEFT)
    /\ ret.res = Ok(Rat(9, 16))

\* C2, as the spec states it: with start < end the Left estimate is the sum of
\* w * f over the left edges of the n subintervals (i = 0 .. n-1) and the Right
\* estimate the sum over their right edges (i = 1 .. n).
C2_EstimateIsRectangleSumOfRule ==
    Returned("calculate_integral_sum") /\ Supported(settings)
        /\ settings.start < settings.end =>
       /\ settings.equipment = LEFT =>
             ret.res = Ok(RMul(Width(settings), SumOfF(settings, 0, settings.accuracy - 1)))
       /\ settings.equipment = RIGHT =>
             ret.res = Ok(RMul(Width(settings), SumOfF(settings, 1, settings.accuracy)))

\* C3: for a supported formula, start < end and n >= 1, calculate_graph_points
\* returns n + 1 points with strictly increasing x, the first x being start and
\* the last x being end, each y being the formula's value at the point's x.
C3_GraphPoints ==
    Returned("calculate_graph_points") /\ Supported(settings)
        /\ settings.start < settings.end =>
       /\ ret.res.err = ""
       /\ Len(ret.res.val) = settings.accuracy + 1
       /\ \A i \in 1 .. settings.accuracy : RLt(ret.res.val[i].x, ret.res.val[i + 1].x)
       /\ ret.res.val[1].x = FromInt(settings.start)
       /\ ret.res.val[settings.accuracy + 1].x = FromInt(settings.end)
       /\ \A i \in 1 .. settings.accuracy + 1 :
             Ok(ret.res.val[i].y) = get_formula_value_at(ret.res.val[i].x, settings)

C3_Witness ==
    /\ Returned("calculate_graph_points")
    /\ settings = Settings(31, -1, 2, MaxAccuracy, RIGHT)
    /\ Len(ret.res.val) = MaxAccuracy + 1
    /\ ret.res.val[MaxAccuracy + 1].x = FromInt(2)

\* the formula's values at the sample points go one way
MonotonicOnSamples(s) ==
    \/ \A i \in 1 .. s.accuracy : RLe(F(s, Node(s, i - 1)), F(s, Node(s, i)))
    \/ \A i \in 1 .. s.accuracy : RLe(F(s, Node(s, i)), F(s, Node(s, i - 1)))

\* C4: for n >= 1 and a formula monotonic on the interval, the Midpoint estimate
\* lies between the Left and the Right estimate of the same formula, interval
\* and n: min(Left, Right) <= Midpoint <= max(Left, Right).
C4_MidpointBetweenLeftAndRight ==
    Returned("calculate_integral_sum") /\ Supported(settings)
        /\ settings.equipment = MIDDLE /\ MonotonicOnSamples(settings) =>
       /\ ret.res.err = ""
       /\ Between(EstimateOf(settings, LEFT), ret.res.val, EstimateOf(settings, RIGHT))

C4_Witness ==
    /\ Returned("calculate_integral_sum")
    /\ settings = Settings(2, 0, 2, 2, MIDDLE)
    /\ RLt(EstimateOf(settings, RIGHT), ret.res.val)
    /\ RLt(ret.res.val, EstimateOf(settings, LEFT))

\* C5: for a supported formula and n >= 1, whatever offset in [0, w] the Random
\* rule draws, the Random estimate lies between the Left and the Right estimate
\* of the same configuration.
C5_RandomBetweenLeftAndRight ==
    Returned("calculate_integral_sum") /\ Supported(settings)
        /\ settings.equipment = RANDOM =>
       /\ ret.res.err = ""
       /\ Between(EstimateOf(settings, LEFT), ret.res.val, EstimateOf(settings, RIGHT))

C5_Witness ==
    /\ Returned("calculate_integral_sum")
    /\ settings = Settings(10, -1, 1, 3, RANDOM)
    /\ ret.arg = Rat(1, 3)
    /\ RLt(EstimateOf(settings, RIGHT), ret.res.val)
    /\ RLt(ret.res.val, EstimateOf(settings, LEFT))

\* C6: get_formula_value_at fails with the unsupported-task error for every id
\* outside {2, 10, 22, 26, 31} and returns no default; with such an id and
\* n >= 1, calculate_graph_points and calculate_integral_sum end with that error.
C6_ClosedFormulaTable ==
    settings.task \notin {2, 10, 22, 26, 31} =>
       /\ Returned("get_formula_value_at") => ret.res = Raise(UnsupportedTask)
       /\ settings.accuracy >= 1
            /\ (Returned("calculate_graph_points") \/ Returned("calculate_integral_sum"))
            => ret.res = Raise(UnsupportedTask)

C6_Witness ==
    /\ Returned("calculate_integral_sum")
    /\ settings = Settings(999, 0, 1, 2, MIDDLE)
    /\ ret.res = Raise(UnsupportedTask)

\* the rectangle of sample point p for width w and offset sh
RectangleAt(p, w, sh) ==
    [x |-> RSub(p.x, sh), y |-> FromInt(0), width |-> w, height |-> p.y]

\* rectangle i is the one of sample i, for every i of both
RectanglesOfSamples(s, shape, samples, sh) ==
    \A i \in DOMAIN shape \cap DOMAIN samples :
        shape[i] = RectangleAt(samples[i], Width(s), sh)

\* C8, as the spec states it: for n >= 1, create_integral_shape builds exactly
\* n rectangles, one per subinterval, each with left edge x_i - offset, width w
\* and height y_i for a sample (x_i, y_i) and the offset of the rule.
C8_OneRectanglePerSubinterval ==
    Returned("create_integral_shape") /\ Supported(settings) =>
       /\ ret.res.err = ""
       /\ Len(ret.res.val) = settings.accuracy
       /\ RectanglesOfSamples(settings, ret.res.val,
                              calculate_graph_points(settings).val,
                              calculate_integral_shape_shift(settings, ret.arg).val)

\* C8, as the code has it: for n >= 1, create_integral_shape builds exactly one
\* rectangle per sample point, n + 1 rectangles, the i-th with left edge
\* x_i - offset, width w and height y_i for the i-th sample (x_i, y_i) and the
\* offset calculate_integral_shape_shift gives the configuration.
C8_OneRectanglePerSample ==
    Returned("create_integral_shape") /\ Supported(settings) =>
       /\ ret.res.err = ""
       /\ Len(ret.res.val) = settings.accuracy + 1
       /\ RectanglesOfSamples(settings, ret.res.val,
                              calculate_graph_points(settings).val,
                              calculate_integral_shape_shift(settings, ret.arg).val)

C8_Witness ==
    /\ Returned("create_integral_shape")
    /\ settings = read_settings
    /\ Len(ret.res.val) = 11
    /\ ret.res.val[11].x = Rat(19, 20)

---------------------------------------------------------------------------
(* The harness (checked under Spec)                                        *)

\* the field of the configuration that a handler writes
FieldOf(handler) ==
    CASE handler = "on_accuracy_change" -> "accuracy"
      [] handler = "on_task_change"     -> "task"
      [] handler = "on_start_change"    -> "start"
      [] handler = "on_end_change"      -> "end"

\* a handler has just finished, on the event recorded in event
Handled == pc = "show" /\ event.handler # "none"

Swallowed == "except ValueError: pass"

\* C7: on each of the four inputs, a text that is no integer is silently
\* ignored: no field of the configuration changes, the stored points are
\* unchanged, nothing is recomputed or redrawn, and no error leaves the handler.
C7_NonIntegerTextIgnored ==
    [][pc = "show" /\ event'.text \in NonIntegerTexts =>
          /\ settings' = settings
          /\ points' = points
          /\ axes' = axes
          /\ log' = <<>>
          /\ outcome' = Swallowed]_vars

C7_Witness ==
    /\ Handled
    /\ event = [handler |-> "on_task_change", text |-> <<"2", "x">>]
    /\ outcome = Swallowed
    /\ log = <<>>
    /\ settings = read_settings

\* C9, as the spec states it: once an edit handler has finished, the stored
\* points are calculate_graph_points of the current configuration.
C9_PointsOfCurrentConfiguration ==
    Handled => Ok(points) = calculate_graph_points(settings)

\* the stored points new after an edit, old before it, computed being
\* calculate_graph_points of the configuration after it
PointsFollow(old, new, computed) ==
    IF computed.err = "" THEN new = computed.val ELSE new = old

\* C9, as the code has it: after every edit on the four inputs the stored
\* points are calculate_graph_points of the current configuration whenever that
\* computation succeeds; when it fails (formula id outside the table,
\* accuracy 0) the stored points stay those of the earlier configuration.
C9_PointsRecomputedOrKept ==
    [][pc = "show" => PointsFollow(points, points', calculate_graph_points(settings'))]_vars

C9_Witness ==
    /\ Handled
    /\ event = [handler |-> "on_accuracy_change", text |-> <<"3">>]
    /\ settings = [read_settings EXCEPT !.accuracy = 3]
    /\ Len(points) = 4
    /\ points = calculate_graph_points(settings).val

\* C10, as the spec states it: a handler catches only the error of int(); after
\* an integer text nothing is swallowed.
C10_OnlyParseErrorCaught ==
    Handled /\ event.text \notin NonIntegerTexts => outcome # Swallowed

\* how a handler ends on an integer text, the value being stored in s
OutcomeOfEdit(s) ==
    IF s.accuracy = 0 THEN ZeroDivisionError
    ELSE IF s.task \notin SupportedTasks THEN UnsupportedTask
    ELSE IF s.accuracy < 0 THEN Swallowed
    ELSE "returned"

\* C10, as the code has it: a handler writes the parsed integer into its field,
\* and no other field, before it recomputes, and the write stays whatever
\* follows.  It catches ValueError only: with accuracy 0 a ZeroDivisionError
\* and otherwise with a formula id outside the table the unsupported-task error
\* leaves the handler, at this edit and at every later integer edit that leaves
\* the offending field as it is; with a supported id and a negative accuracy the
\* ValueError of the redraw over no points is swallowed like a parse error.
C10_WriteThenRecompute ==
    [][pc = "show" /\ event'.text \notin NonIntegerTexts =>
          /\ settings'[FieldOf(event'.handler)] = int(event'.text).val
          /\ \A f \in DOMAIN settings \ {FieldOf(event'.handler)} : settings'[f] = settings[f]
          /\ outcome' = OutcomeOfEdit(settings')]_vars

C10_Witness ==
    /\ Handled
    /\ event = [handler |-> "on_start_change", text |-> <<"-", "1">>]
    /\ settings = [read_settings EXCEPT !.task = 7, !.start = -1]
    /\ outcome = UnsupportedTask
    /\ Len(points) = 11

=============================================================================
